---- MODULE Spec2Model ----
(***************************************************************************)
(* versionhero: the version resolver (RepoDetails) and the keyword         *)
(* replacer (KeywordReplacer).                                             *)
(*                                                                         *)
(* A Python str is a sequence of one-character strings, so that matching,  *)
(* slicing, replacing and formatting are computed character by character.  *)
(* None is the empty sequence <<>> where a field holds None or a value     *)
(* (<<n>> is the cached value n).                                          *)
(***************************************************************************)
EXTENDS Integers, Sequences, FiniteSets, TLC

VARIABLES
  repo,       \* the repository snapshot GitPython reads (commits, tags, branch, diffs)
  self,       \* the RepoDetails object
  tags,       \* _calculate_version_value: the retained tags
  tag_name,   \* _calculate_version_value: the name of the anchor tag, '' when none
  idx,        \* _calculate_version_value: position of the commit loop (1-based)
  inspected,  \* the positions of commits whose hexsha the loop has compared
  pc,         \* where the program is
  text,       \* KeywordReplacer.text
  template,   \* the text KeywordReplacer was constructed with
  kw,         \* position in execute()'s list of simple_replacement calls
  iterations, \* handler invocations of the running simple_replacement loop
  fired,      \* the simple_replacement calls that have substituted something
  call,       \* the last RepoDetails method called, with its arguments
  ret         \* its outcome

vars == <<repo, self, tags, tag_name, idx, inspected, pc, text, template, kw, iterations, fired, call, ret>>

(***************************************************************************)
(* Bounds of the model.                                                    *)
(***************************************************************************)
MaxCommits == 3
MaxTags == 2
MaxMods == 2
MaxSegments == 3
MaxIterations == 3
MaxPieces == 2

(***************************************************************************)
(* Strings.                                                                *)
(***************************************************************************)
Digits == {"0", "1", "2", "3", "4", "5", "6", "7", "8", "9"}

DigitSeq == <<"0", "1", "2", "3", "4", "5", "6", "7", "8", "9">>

StartsWith(s, p) == Len(p) <= Len(s) /\ SubSeq(s, 1, Len(p)) = p

Drop(s, n) == SubSeq(s, n + 1, Len(s))

Take(s, n) == SubSeq(s, 1, n)

Min(a, b) == IF a <= b THEN a ELSE b

Max(a, b) == IF a >= b THEN a ELSE b

\* str(n) of a non-negative int: its decimal digits
RECURSIVE IntToStr(_)
IntToStr(n) ==
  IF n < 10 THEN <<DigitSeq[n + 1]>>
  ELSE IntToStr(n \div 10) \o <<DigitSeq[(n % 10) + 1]>>

DigitValue(c) == CHOOSE d \in 0..9 : DigitSeq[d + 1] = c

\* the value of a non-empty run of decimal digits
RECURSIVE DigitsToInt(_)
DigitsToInt(s) ==
  IF Len(s) = 1 THEN DigitValue(s[1])
  ELSE 10 * DigitsToInt(SubSeq(s, 1, Len(s) - 1)) + DigitValue(s[Len(s)])

\* the longest prefix of s made of decimal digits (a greedy \d* )
RECURSIVE DigitRun(_)
DigitRun(s) ==
  IF s # <<>> /\ Head(s) \in Digits THEN <<Head(s)>> \o DigitRun(Tail(s)) ELSE <<>>

\* the first position >= from at which old occurs in s, 0 when there is none
RECURSIVE Find(_, _, _)
Find(s, old, from) ==
  IF from + Len(old) - 1 > Len(s) THEN 0
  ELSE IF s[from] = old[1] /\ SubSeq(s, from, from + Len(old) - 1) = old THEN from
  ELSE Find(s, old, from + 1)

\* str.replace(old, new) for a non-empty old: every occurrence, left to right,
\* the result is not scanned again
RECURSIVE Replace(_, _, _)
Replace(s, old, new) ==
  LET at == Find(s, old, 1) IN
  IF at = 0 THEN s
  ELSE SubSeq(s, 1, at - 1) \o new \o Replace(Drop(s, at + Len(old) - 1), old, new)

\* str.lstrip(chars)
RECURSIVE LStrip(_, _)
LStrip(s, chars) ==
  IF s # <<>> /\ Head(s) \in chars THEN LStrip(Tail(s), chars) ELSE s

\* s[:n], n of either sign
Slice(s, n) ==
  IF n >= 0 THEN Take(s, Min(n, Len(s))) ELSE Take(s, Max(Len(s) + n, 0))

RECURSIVE SortedSeq(_)
SortedSeq(S) ==
  IF S = {} THEN <<>>
  ELSE LET m == CHOOSE x \in S : \A y \in S : x <= y IN <<m>> \o SortedSeq(S \ {m})

(***************************************************************************)
(* The repository snapshot: what GitPython returns.                        *)
(***************************************************************************)
AuthoredTime ==
  [Y |-> <<"2", "0", "2", "0">>, m |-> <<"0", "1">>, d |-> <<"0", "2">>, H |-> <<"0", "3">>, M |-> <<"0", "4">>, S |-> <<"0", "5">>,
   z |-> <<"+", "0", "0", "0", "0">>]

ClockTime ==
  [Y |-> <<"2", "0", "2", "6">>, m |-> <<"1", "1">>, d |-> <<"0", "5">>, H |-> <<"2", "1">>, M |-> <<"4", "3">>, S |-> <<"0", "0">>,
   z |-> <<"+", "0", "0", "0", "0">>]

HexLead == <<"a", "1", "2", "3", "4", "5", "6", "7", "8", "9">>

\* the hexsha of the i-th commit from HEAD; HEAD is abcdef1234
HexOf(i) == <<HexLead[i]>> \o <<"b", "c", "d", "e", "f", "1", "2", "3", "4">>

\* the hexsha of an annotated tag's tag object, or of a commit off the walked history
TagObjectSha == <<"f", "0", "0", "d", "f", "0", "0", "d", "0", "0">>

\* the file a commit changes
PathSrc == <<"s", "r", "c", "/", "a">>

PathDoc == <<"d", "o", "c", "/", "b">>

Paths == {PathSrc, PathDoc}

\* the names a tag can have, in the order Repo.tags lists them (sorted by name)
TagNames ==
  << <<"1", ".", "2">>,
     <<"1", "2", "-", "3", "0", "x">>,
     <<"v", "1", ".", "2">>,
     <<"v", "3", "_", "4">> >>

BranchMaster == <<"m", "a", "s", "t", "e", "r">>

\* a branch name that is itself a GITBRANCHNAME token (git allows ! in a ref name)
BranchToken ==
  <<"!", "G", "I", "T", "B", "R", "A", "N", "C", "H", "N", "A", "M", "E", "!">>

\* the --project_dir arguments
SubPathNone == <<>>

SubPathSrc == << <<"\\", "s", "r", "c">> >>

SubPathLib == << <<"/", "l", "i", "b">> >>

Histories(n) ==
  {[i \in 1..n |-> [hexsha |-> HexOf(i), path |-> f[i]]] : f \in [1..n -> Paths]}

TagList(S, f) ==
  LET order == SortedSeq(S)
  IN [k \in 1..Len(order) |-> [name |-> TagNames[order[k]], object |-> f[order[k]]]]

TagLists(commits) ==
  LET targets == {commits[i].hexsha : i \in 1..Len(commits)} \cup {TagObjectSha}
  IN UNION {{TagList(S, f) : f \in [S -> targets]} :
              S \in {T \in SUBSET (1..Len(TagNames)) : Cardinality(T) <= MaxTags}}

(***************************************************************************)
(* re.match(self.tag_prefix + self.tag_match_pattern, name) with the       *)
(* default pattern (?P<major>\d+)(?P<separator>[._-])(?P<minor>\d+) and a  *)
(* prefix of literal characters: anchored at the start of the name, not at *)
(* its end.                                                                *)
(***************************************************************************)
Separators == {".", "_", "-"}

NoMatch == [matched |-> FALSE, major |-> <<>>, separator |-> <<>>, minor |-> <<>>]

re_match(tag_prefix, name) ==
  IF ~StartsWith(name, tag_prefix) THEN NoMatch
  ELSE
    LET r1 == Drop(name, Len(tag_prefix))
        major == DigitRun(r1)
        r2 == Drop(r1, Len(major))
    IN IF major = <<>> \/ r2 = <<>> THEN NoMatch
       ELSE IF Head(r2) \notin Separators THEN NoMatch
       ELSE LET minor == DigitRun(Tail(r2))
            IN IF minor = <<>> THEN NoMatch
               ELSE [matched |-> TRUE, major |-> major,
                     separator |-> <<Head(r2)>>, minor |-> minor]

\* re.search in place of re.match: the pattern may start anywhere in the name
re_search(tag_prefix, name) ==
  LET hits == {i \in 0..Len(name) : re_match(tag_prefix, Drop(name, i)).matched}
  IN IF hits = {} THEN NoMatch
     ELSE re_match(tag_prefix, Drop(name, CHOOSE i \in hits : \A j \in hits : i <= j))

\* re.match(match_pattern, name)
match_tag(tag_prefix, name) == re_match(tag_prefix, name)

(***************************************************************************)
(* RepoDetails.__init__ up to the call of _calculate_version_value.        *)
(***************************************************************************)
\* sub_paths[i].replace('\\', '/').lstrip('/')
NormalizePath(p) == LStrip(Replace(p, <<"\\">>, <<"/">>), {"/"})

NormalizePaths(sub_paths) == [i \in 1..Len(sub_paths) |-> NormalizePath(sub_paths[i])]

iter_commits_all(r, paths) == r.commits

\* Repo.iter_commits(paths=...): the commits from HEAD, newest first, that change a
\* file under one of the paths; every commit when no path is given
iter_commits(r, paths) ==
  IF paths = <<>> THEN r.commits
  ELSE SelectSeq(r.commits,
                 LAMBDA c : \E i \in 1..Len(paths) : StartsWith(c.path, paths[i]))

Unset == <<>>

RepoDetails(r, tag_prefix, sub_paths, use_directory_hash) ==
  [tag_prefix |-> tag_prefix,
   sub_paths |-> NormalizePaths(sub_paths),
   _sub_path_commits |-> iter_commits(r, NormalizePaths(sub_paths)),
   _all_commits |-> iter_commits(r, <<>>),
   _commit |-> r.commits[1],
   _modification_count |-> <<>>,
   _dir_modification_count |-> <<>>,
   _use_directory_hash |-> use_directory_hash,
   _patch |-> Unset,
   _major |-> Unset,
   _minor |-> Unset,
   _default_separator |-> Unset]

Construct(r, tag_prefix, sub_paths, use_directory_hash) ==
  /\ repo = r
  /\ self = RepoDetails(r, tag_prefix, sub_paths, use_directory_hash)
  /\ tags = <<>>
  /\ tag_name = <<>>
  /\ idx = 0
  /\ inspected = {}
  /\ pc = "init"
  /\ text = <<>>
  /\ template = <<>>
  /\ kw = 0
  /\ iterations = 0
  /\ fired = {}
  /\ call = [op |-> "none"]
  /\ ret = [ok |-> TRUE, err |-> "", val |-> <<>>]

(***************************************************************************)
(* RepoDetails._calculate_version_value                                    *)
(***************************************************************************)
\* lines 62-73: keep the tags whose name matches prefix + pattern
FilterTags ==
  /\ pc = "init"
  /\ tags' = SelectSeq(repo.tags, LAMBDA t : match_tag(self.tag_prefix, t.name).matched)
  /\ tag_name' = <<>>
  /\ self' = [self EXCEPT !._patch = 0]
  /\ idx' = 1
  /\ pc' = "walk"
  /\ UNCHANGED <<repo, inspected, text, template, kw, iterations, fired, call, ret>>

\* lines 75-79: the name of the first retained tag whose object is the commit, else
\* the tag_name so far
TagOnCommit(retained, commit, name_so_far) ==
  LET hits == SelectSeq(retained, LAMBDA t : t.object = commit.hexsha)
  IN IF hits # <<>> THEN hits[1].name ELSE name_so_far

\* the commit loop counting the anchor commit too
WalkStep_CountsAnchor ==
  /\ pc = "walk"
  /\ tag_name = <<>>
  /\ idx <= Len(self._sub_path_commits)
  /\ tag_name' = TagOnCommit(tags, self._sub_path_commits[idx], tag_name)
  /\ inspected' = inspected \cup {idx}
  /\ self' = [self EXCEPT !._patch = @ + 1]
  /\ idx' = idx + 1
  /\ UNCHANGED <<repo, tags, pc, text, template, kw, iterations, fired, call, ret>>

\* lines 74-85: one pass of the commit loop
WalkStep ==
  /\ pc = "walk"
  /\ tag_name = <<>>
  /\ idx <= Len(self._sub_path_commits)
  /\ LET found == TagOnCommit(tags, self._sub_path_commits[idx], tag_name)
     IN /\ tag_name' = found
        /\ inspected' = inspected \cup {idx}
        /\ IF found # <<>>
           THEN UNCHANGED <<self, idx>>
           ELSE /\ self' = [self EXCEPT !._patch = @ + 1]
                /\ idx' = idx + 1
  /\ UNCHANGED <<repo, tags, pc, text, template, kw, iterations, fired, call, ret>>

\* lines 87-100: after the loop (broken out of, or exhausted)
ParseTag ==
  /\ pc = "walk"
  /\ tag_name # <<>> \/ idx > Len(self._sub_path_commits)
  /\ LET match == match_tag(self.tag_prefix, tag_name)
     IN self' = [self EXCEPT
                   !._default_separator =
                      IF match.matched /\ match.separator # <<>>
                      THEN match.separator ELSE <<".">>,
                   !._major = IF match.matched /\ match.major # <<>>
                              THEN match.major ELSE <<"0">>,
                   !._minor = IF match.matched /\ match.minor # <<>>
                              THEN match.minor ELSE <<"0">>,
                   !._patch = IntToStr(self._patch)]
  /\ pc' = "ready"
  /\ UNCHANGED <<repo, tags, tag_name, idx, inspected, text, template, kw, iterations, fired, call, ret>>

NextResolve == FilterTags \/ WalkStep \/ ParseTag

(***************************************************************************)
(* The resolver over every small repository.                               *)
(***************************************************************************)
TagPrefixes == {<<>>, <<"v">>}

SubPathArgs == {SubPathNone, SubPathSrc, SubPathLib}

InitResolve ==
  \E n \in 1..MaxCommits :
    \E commits \in Histories(n) :
      \E tl \in TagLists(commits), tag_prefix \in TagPrefixes, sub_paths \in SubPathArgs :
        Construct([commits |-> commits, tags |-> tl, detached |-> FALSE,
                   active_branch |-> BranchMaster, diff_all |-> 0, diff_dir |-> 0,
                   authored |-> AuthoredTime, localtime |-> ClockTime],
                  tag_prefix, sub_paths, FALSE)

SpecResolve == InitResolve /\ [][NextResolve]_vars

(***************************************************************************)
(* RepoDetails: the methods the keywords call.  Each returns                *)
(* [ok, err, val, self]: whether it returned, the exception it raised, the  *)
(* value it returned, and the object afterwards (the cached counts).        *)
(***************************************************************************)
DefaultNumChars == 7

Ok(v, s) == [ok |-> TRUE, err |-> "", val |-> v, self |-> s]

Raise(e, s) == [ok |-> FALSE, err |-> e, val |-> <<>>, self |-> s]

\* str(value) of a returned int
Str(r) == IF r.ok THEN [r EXCEPT !.val = IntToStr(r.val)] ELSE r

\* int(num_chars) succeeds: an optional sign, then decimal digits
IsInt(str) ==
  LET body == IF str # <<>> /\ Head(str) \in {"+", "-"} THEN Tail(str) ELSE str
  IN body # <<>> /\ \A i \in 1..Len(body) : body[i] \in Digits

IntOf(str) ==
  IF Head(str) = "-" THEN 0 - DigitsToInt(Tail(str))
  ELSE IF Head(str) = "+" THEN DigitsToInt(Tail(str))
  ELSE DigitsToInt(str)

\* always the default length, whatever was asked for
int_ignored(num_chars) == DefaultNumChars

\* lines 147-150, 163-166: int(num_chars), 7 on ValueError
int_or_default(num_chars) == IF IsInt(num_chars) THEN IntOf(num_chars) ELSE DefaultNumChars

\* branch_name: str() of the active branch, "detached" on TypeError
branch_name(s) == Ok(IF repo.detached THEN <<"d", "e", "t", "a", "c", "h", "e", "d">> ELSE repo.active_branch, s)

commit_number(s) == Ok(Len(s._all_commits), s)

\* the hash of HEAD whatever the sub-paths
dir_sha_of_head(s, n) == Ok(Slice(s._commit.hexsha, n), s)

\* dir_sha lines 168-169, num_chars already an int
dir_sha_n(s, n) ==
  IF s._sub_path_commits = <<>> THEN Raise("IndexError", s)
  ELSE Ok(Slice(s._sub_path_commits[1].hexsha, n), s)

dir_sha(s, num_chars) == dir_sha_n(s, int_or_default(num_chars))

\* sha lines 152-155, num_chars already an int
sha_n(s, n) ==
  IF s._use_directory_hash THEN dir_sha_n(s, n) ELSE Ok(Slice(s._commit.hexsha, n), s)

sha(s, num_chars) == sha_n(s, int_or_default(num_chars))

dir_mods(s) ==
  IF s._dir_modification_count # <<>> THEN Ok(s._dir_modification_count[1], s)
  ELSE IF s._sub_path_commits = <<>> THEN Raise("IndexError", s)
  ELSE Ok(repo.diff_dir, [s EXCEPT !._dir_modification_count = <<repo.diff_dir>>])

mods(s) ==
  IF s._use_directory_hash THEN dir_mods(s)
  ELSE IF s._modification_count # <<>> THEN Ok(s._modification_count[1], s)
  ELSE Ok(repo.diff_all, [s EXCEPT !._modification_count = <<repo.diff_all>>])

(***************************************************************************)
(* _apply_format: the placeholders are replaced by replacement fields, in  *)
(* this order, and the result is evaluated as an f-string.                 *)
(***************************************************************************)
Placeholders ==
  << <<<<"%", "d", "m", "c">>, <<"{", "s", "e", "l", "f", ".", "d", "i", "r", "_", "m", "o", "d", "s", "(", ")", "}">>>>,
     <<<<"%", "m", "c">>, <<"{", "s", "e", "l", "f", ".", "m", "o", "d", "s", "(", ")", "}">>>>,
     <<<<"%", "s", "p", "r">>, <<"{", "s", "e", "l", "f", ".", "s", "e", "m", "v", "e", "r", "_", "p", "r", "e", "_", "r", "e", "l", "e", "a", "s", "e", "(", ")", "}">>>>,
     <<<<"%", "s", "b", "m">>, <<"{", "s", "e", "l", "f", ".", "s", "e", "m", "v", "e", "r", "_", "b", "u", "i", "l", "d", "_", "m", "e", "t", "a", "d", "a", "t", "a", "(", ")", "}">>>>,
     <<<<"%", "d", "s", "h">>, <<"{", "s", "e", "l", "f", ".", "d", "i", "r", "_", "s", "h", "a", "(", ")", "}">>>>,
     <<<<"%", "s", "h">>, <<"{", "s", "e", "l", "f", ".", "s", "h", "a", "(", ")", "}">>>>,
     <<<<"%", "s">>, <<"{", "s", "e", "p", "a", "r", "a", "t", "o", "r", "}">>>>,
     <<<<"%", "M">>, <<"{", "s", "e", "l", "f", ".", "_", "m", "a", "j", "o", "r", "}">>>>,
     <<<<"%", "m">>, <<"{", "s", "e", "l", "f", ".", "_", "m", "i", "n", "o", "r", "}">>>>,
     <<<<"%", "p">>, <<"{", "s", "e", "l", "f", ".", "_", "p", "a", "t", "c", "h", "}">>>>,
     <<<<"%", "h", "m">>, <<"{", "s", "e", "l", "f", ".", "h", "a", "s", "_", "m", "o", "d", "i", "f", "i", "c", "a", "t", "i", "o", "n", "s", "(", ")", "}">>>> >>

\* lines 111-121: the replace calls from the k-th on
RECURSIVE ReplacePlaceholders(_, _)
ReplacePlaceholders(formatting, k) ==
  IF k > Len(Placeholders) THEN formatting
  ELSE ReplacePlaceholders(Replace(formatting, Placeholders[k][1], Placeholders[k][2]), k + 1)

\* the expressions _apply_format writes into the f-string
FieldExprs == {SubSeq(Placeholders[k][2], 2, Len(Placeholders[k][2]) - 1) : k \in 1..Len(Placeholders)}

Lit(c) == [lit |-> TRUE, s |-> c]

Field(e) == [lit |-> FALSE, s |-> e]

SyntaxError == [ok |-> FALSE, parts |-> <<>>]

Cons(part, parsed) == IF parsed.ok THEN [parsed EXCEPT !.parts = <<part>> \o @] ELSE parsed

\* the escape sequences of a string literal that the formats of this model can
\* spell (none of them holds \a \b \v, a digit, x, N, u, U or a quote after a backslash)
Escapes == [n |-> "\n", t |-> "\t", r |-> "\r", f |-> "\f"]

\* a backslash starts an escape sequence: \\ is a backslash, \n a newline, a
\* backslash before any other character stays, and a backslash at the end takes the
\* closing quote, so the literal is unterminated.
\* compiling f"""...""": {{ and }} are braces, { opens a replacement field that runs
\* to the next }, a } alone is an error.  A field holds one of FieldExprs; the text
\* this model formats has no } of its own, so any other field is unclosed, empty or
\* holds a { and does not compile.
RECURSIVE ParseFString(_)
ParseFString(f) ==
  IF f = <<>> THEN [ok |-> TRUE, parts |-> <<>>]
  ELSE IF Head(f) = "{" THEN
    IF Len(f) >= 2 /\ f[2] = "{" THEN Cons(Lit("{"), ParseFString(Drop(f, 2)))
    ELSE LET close == Find(f, <<"}">>, 2) IN
         IF close = 0 THEN SyntaxError
         ELSE IF SubSeq(f, 2, close - 1) \notin FieldExprs THEN SyntaxError
         ELSE Cons(Field(SubSeq(f, 2, close - 1)), ParseFString(Drop(f, close)))
  ELSE IF Head(f) = "}" THEN
    IF Len(f) >= 2 /\ f[2] = "}" THEN Cons(Lit("}"), ParseFString(Drop(f, 2)))
    ELSE SyntaxError
  ELSE IF Head(f) = "\\" THEN
    IF Len(f) = 1 THEN SyntaxError
    ELSE IF f[2] = "\\" THEN Cons(Lit("\\"), ParseFString(Drop(f, 2)))
    ELSE IF f[2] \in DOMAIN Escapes THEN Cons(Lit(Escapes[f[2]]), ParseFString(Drop(f, 2)))
    ELSE Cons(Lit("\\"), ParseFString(Tail(f)))
  ELSE Cons(Lit(Head(f)), ParseFString(Tail(f)))

RECURSIVE _apply_format(_, _, _)
RECURSIVE EvalField(_, _, _)
RECURSIVE EvalParts(_, _, _, _)
RECURSIVE has_dir_mods(_, _, _)

semver_pre_release(s) == has_dir_mods(s, <<"-", "m", "o", "d", "s", ".", "%", "m", "c">>, <<>>)

semver_build_metadata(s) == _apply_format(s, <<"+", "s", "h", "a", ".", "%", "s", "h">>, <<>>)

\* one replacement field of the f-string
EvalField(expr, s, separator) ==
  CASE expr = <<"s", "e", "l", "f", ".", "d", "i", "r", "_", "m", "o", "d", "s", "(", ")">> -> Str(dir_mods(s))
    [] expr = <<"s", "e", "l", "f", ".", "m", "o", "d", "s", "(", ")">> -> Str(mods(s))
    [] expr = <<"s", "e", "l", "f", ".", "s", "e", "m", "v", "e", "r", "_", "p", "r", "e", "_", "r", "e", "l", "e", "a", "s", "e", "(", ")">> -> semver_pre_release(s)
    [] expr = <<"s", "e", "l", "f", ".", "s", "e", "m", "v", "e", "r", "_", "b", "u", "i", "l", "d", "_", "m", "e", "t", "a", "d", "a", "t", "a", "(", ")">> -> semver_build_metadata(s)
    [] expr = <<"s", "e", "l", "f", ".", "d", "i", "r", "_", "s", "h", "a", "(", ")">> -> dir_sha_n(s, DefaultNumChars)
    [] expr = <<"s", "e", "l", "f", ".", "s", "h", "a", "(", ")">> -> sha_n(s, DefaultNumChars)
    [] expr = <<"s", "e", "p", "a", "r", "a", "t", "o", "r">> -> Ok(separator, s)
    [] expr = <<"s", "e", "l", "f", ".", "_", "m", "a", "j", "o", "r">> -> Ok(s._major, s)
    [] expr = <<"s", "e", "l", "f", ".", "_", "m", "i", "n", "o", "r">> -> Ok(s._minor, s)
    [] expr = <<"s", "e", "l", "f", ".", "_", "p", "a", "t", "c", "h">> -> Ok(s._patch, s)
    [] expr = <<"s", "e", "l", "f", ".", "h", "a", "s", "_", "m", "o", "d", "i", "f", "i", "c", "a", "t", "i", "o", "n", "s", "(", ")">> -> Raise("AttributeError", s)

\* the fields are evaluated left to right; the first exception ends the evaluation
EvalParts(parts, s, separator, acc) ==
  IF parts = <<>> THEN Ok(acc, s)
  ELSE IF Head(parts).lit THEN EvalParts(Tail(parts), s, separator, Append(acc, Head(parts).s))
  ELSE LET r == EvalField(Head(parts).s, s, separator)
       IN IF r.ok THEN EvalParts(Tail(parts), r.self, separator, acc \o r.val) ELSE r

\* lines 109-122; separator is <<>> for None and for ''
_apply_format(s, formatting, separator) ==
  LET sep == IF separator = <<>> THEN s._default_separator ELSE separator
      parsed == ParseFString(ReplacePlaceholders(formatting, 1))
  IN IF parsed.ok THEN EvalParts(parsed.parts, s, sep, <<>>) ELSE Raise("SyntaxError", s)

\* lines 217-237 with str arguments: both strings are formatted, then the count is read
Choose(t, f, count) ==
  IF ~t.ok THEN t
  ELSE IF ~f.ok THEN f
  ELSE IF ~count.ok THEN count
  ELSE Ok(IF count.val > 0 THEN t.val ELSE f.val, count.self)

has_mods(s, true_value, false_value) ==
  LET t == _apply_format(s, true_value, <<>>)
      f == _apply_format(t.self, false_value, <<>>)
  IN Choose(t, f, mods(f.self))

has_dir_mods(s, true_value, false_value) ==
  LET t == _apply_format(s, true_value, <<>>)
      f == _apply_format(t.self, false_value, <<>>)
  IN Choose(t, f, dir_mods(f.self))

default_version_format == <<"%", "M", "%", "s", "%", "m", "%", "s", "%", "p", "%", "s", "%", "m", "c">>

\* version(separator, version_format); <<>> is None or ''
version(s, separator, version_format) ==
  _apply_format(s, IF version_format = <<>> THEN default_version_format ELSE version_format,
                separator)

semver(s) == _apply_format(s, <<"%", "M", ".", "%", "m", ".", "%", "p">>, <<>>)

semver_extended(s) == _apply_format(s, <<"%", "M", ".", "%", "m", ".", "%", "p", "%", "s", "p", "r", "%", "s", "b", "m">>, <<>>)

major(s) == Ok(s._major, s)

minor(s) == Ok(s._minor, s)

patch(s) == Ok(s._patch, s)

(***************************************************************************)
(* Calls of the methods on a constructed RepoDetails.                      *)
(***************************************************************************)
NumCharsArgs == {<<>>, <<"5">>, <<"1", "2">>, <<"-", "3">>, <<"x">>, <<"(", "5", ")">>}

TrueFalseArgs ==
  { <<<<"-", "m", "o", "d", "s", ".", "%", "m", "c">>, <<>>>>, <<<<"%", "d", "m", "c", " ", "o", "f", " ", "%", "m", "c">>, <<"%", "s", "h">>>>, <<<<"y", "e", "s">>, <<"{">>>>, <<<<"%", "h", "m">>, <<"n", "o">>>> }

SeparatorArgs == {<<>>, <<"-">>}

VersionFormats == {<<>>, <<"%", "d", "s", "h", "%", "s", "h", "%", "s", "%", "s", "b", "m">>, <<"%", "M", "%", "h", "m">>}

Returns(c, result) ==
  \E r \in {result} :
    /\ self' = r.self
    /\ call' = c
    /\ ret' = [ok |-> r.ok, err |-> r.err, val |-> r.val]
    /\ pc' = "called"
    /\ UNCHANGED <<repo, tags, tag_name, idx, inspected, text, template, kw, iterations, fired>>

CallBranchName ==
  /\ pc = "ready"
  /\ Returns([op |-> "branch_name"], branch_name(self))

CallCommitNumber ==
  /\ pc = "ready"
  /\ Returns([op |-> "commit_number"], commit_number(self))

CallSha ==
  /\ pc = "ready"
  /\ \E n \in NumCharsArgs : Returns([op |-> "sha", num_chars |-> n], sha(self, n))

CallDirSha ==
  /\ pc = "ready"
  /\ \E n \in NumCharsArgs : Returns([op |-> "dir_sha", num_chars |-> n], dir_sha(self, n))

CallMods ==
  /\ pc = "ready"
  /\ Returns([op |-> "mods"], mods(self))

CallDirMods ==
  /\ pc = "ready"
  /\ Returns([op |-> "dir_mods"], dir_mods(self))

CallHasMods ==
  /\ pc = "ready"
  /\ \E a \in TrueFalseArgs :
       Returns([op |-> "has_mods", true_value |-> a[1], false_value |-> a[2]],
               has_mods(self, a[1], a[2]))

CallHasDirMods ==
  /\ pc = "ready"
  /\ \E a \in TrueFalseArgs :
       Returns([op |-> "has_dir_mods", true_value |-> a[1], false_value |-> a[2]],
               has_dir_mods(self, a[1], a[2]))

CallVersion ==
  /\ pc = "ready"
  /\ \E sep \in SeparatorArgs, f \in VersionFormats :
       Returns([op |-> "version", separator |-> sep, version_format |-> f], version(self, sep, f))

CallSemver ==
  /\ pc = "ready"
  /\ Returns([op |-> "semver"], semver(self))

CallSemverExtended ==
  /\ pc = "ready"
  /\ Returns([op |-> "semver_extended"], semver_extended(self))

CallSemverPreRelease ==
  /\ pc = "ready"
  /\ Returns([op |-> "semver_pre_release"], semver_pre_release(self))

CallSemverBuildMetadata ==
  /\ pc = "ready"
  /\ Returns([op |-> "semver_build_metadata"], semver_build_metadata(self))

CallMajor ==
  /\ pc = "ready"
  /\ Returns([op |-> "major"], major(self))

CallMinor ==
  /\ pc = "ready"
  /\ Returns([op |-> "minor"], minor(self))

CallPatch ==
  /\ pc = "ready"
  /\ Returns([op |-> "patch"], patch(self))

\* the caller takes the value; the object keeps its cached counts
Return ==
  /\ pc = "called"
  /\ pc' = "ready"
  /\ call' = [op |-> "none"]
  /\ ret' = [ok |-> TRUE, err |-> "", val |-> <<>>]
  /\ UNCHANGED <<repo, self, tags, tag_name, idx, inspected, text, template, kw, iterations, fired>>

NextQuery ==
  \/ FilterTags \/ WalkStep \/ ParseTag
  \/ CallBranchName \/ CallCommitNumber \/ CallSha \/ CallDirSha \/ CallMods \/ CallDirMods
  \/ CallHasMods \/ CallHasDirMods \/ CallVersion \/ CallSemver \/ CallSemverExtended
  \/ CallSemverPreRelease \/ CallSemverBuildMetadata \/ CallMajor \/ CallMinor \/ CallPatch
  \/ Return

\* the working tree: the files that differ, in the whole tree and under the
\* sub-paths (the same files when no sub-path is given)
Diffs(sub_paths) ==
  {d \in (0..MaxMods) \X (0..MaxMods) :
     /\ d[2] <= d[1]
     /\ sub_paths = <<>> => d[2] = d[1]}

\* one tag 1.2 on the oldest commit
ReleaseTag(commits) == <<[name |-> <<"1", ".", "2">>, object |-> commits[Len(commits)].hexsha]>>

InitQuery ==
  \E n \in 1..MaxCommits :
    \E commits \in Histories(n), sub_paths \in SubPathArgs :
      \E d \in Diffs(sub_paths), use_directory_hash \in BOOLEAN :
        Construct([commits |-> commits, tags |-> ReleaseTag(commits), detached |-> FALSE,
                   active_branch |-> BranchMaster, diff_all |-> d[1], diff_dir |-> d[2],
                   authored |-> AuthoredTime, localtime |-> ClockTime],
                  <<>>, sub_paths, use_directory_hash)

SpecQuery == InitQuery /\ [][NextQuery]_vars

(***************************************************************************)
(* time.strftime on the commit's authored time and on the clock.           *)
(***************************************************************************)
default_datetime_format == <<"%", "Y", "-", "%", "m", "-", "%", "d", " ", "%", "H", ":", "%", "M", ":", "%", "S", "%", "z">>

Directives == {"Y", "m", "d", "H", "M", "S", "z"}

\* a conversion the C library knows is replaced, %% is a %, any other character
\* after % is copied with it
RECURSIVE strftime(_, _)
strftime(format, t) ==
  IF format = <<>> THEN <<>>
  ELSE IF Head(format) # "%" \/ Len(format) = 1 THEN <<Head(format)>> \o strftime(Tail(format), t)
  ELSE IF format[2] \in Directives THEN t[format[2]] \o strftime(Drop(format, 2), t)
  ELSE IF format[2] = "%" THEN <<"%">> \o strftime(Drop(format, 2), t)
  ELSE <<"%", format[2]>> \o strftime(Drop(format, 2), t)

commit_datetime(s, datetime_format) ==
  Ok(strftime(IF datetime_format = <<>> THEN default_datetime_format ELSE datetime_format,
              repo.authored), s)

current_datetime(s, datetime_format) ==
  Ok(strftime(IF datetime_format = <<>> THEN default_datetime_format ELSE datetime_format,
              repo.localtime), s)

(***************************************************************************)
(* KeywordReplacer                                                         *)
(***************************************************************************)
KEY_CHARACTERS == {"!", "@", "#", "$", "%", "^", "&", "*"}

\* execute()'s simple_replacement calls in their order; arg is the keyword's
\* argument pattern: none, (.*?) lazy, (.*) greedy, \?(.*?):(.*?) choice
Keywords ==
  << [name |-> <<"G", "I", "T", "B", "R", "A", "N", "C", "H", "N", "A", "M", "E">>, arg |-> "none"],
     [name |-> <<"G", "I", "T", "M", "O", "D", "C", "O", "U", "N", "T">>, arg |-> "none"],
     [name |-> <<"G", "I", "T", "D", "I", "R", "M", "O", "D", "C", "O", "U", "N", "T">>, arg |-> "none"],
     [name |-> <<"G", "I", "T", "C", "O", "M", "M", "I", "T", "N", "U", "M", "B", "E", "R">>, arg |-> "none"],
     [name |-> <<"G", "I", "T", "C", "O", "M", "M", "I", "T", "D", "A", "T", "E">>, arg |-> "greedy"],
     [name |-> <<"G", "I", "T", "B", "U", "I", "L", "D", "D", "A", "T", "E">>, arg |-> "greedy"],
     [name |-> <<"G", "I", "T", "H", "A", "S", "H">>, arg |-> "lazy"],
     [name |-> <<"G", "I", "T", "D", "I", "R", "H", "A", "S", "H">>, arg |-> "lazy"],
     [name |-> <<"G", "I", "T", "M", "O", "D", "S">>, arg |-> "choice"],
     [name |-> <<"G", "I", "T", "D", "I", "R", "M", "O", "D", "S">>, arg |-> "choice"],
     [name |-> <<"G", "I", "T", "V", "E", "R", "S", "I", "O", "N">>, arg |-> "lazy"],
     [name |-> <<"G", "I", "T", "S", "E", "M", "V", "E", "R">>, arg |-> "none"],
     [name |-> <<"G", "I", "T", "S", "E", "M", "V", "E", "R", "E", "X">>, arg |-> "none"],
     [name |-> <<"G", "I", "T", "M", "A", "J", "O", "R">>, arg |-> "none"],
     [name |-> <<"G", "I", "T", "M", "I", "N", "O", "R">>, arg |-> "none"],
     [name |-> <<"G", "I", "T", "P", "A", "T", "C", "H">>, arg |-> "none"] >>

\* the first and the last position of from..to holding one of chars, 0 when none does
FirstIn(t, chars, from, to) ==
  LET hits == {p \in from..to : t[p] \in chars}
  IN IF hits = {} THEN 0 ELSE CHOOSE p \in hits : \A q \in hits : p <= q

LastIn(t, chars, from, to) ==
  LET hits == {p \in from..to : t[p] \in chars}
  IN IF hits = {} THEN 0 ELSE CHOOSE p \in hits : \A q \in hits : p >= q

\* the last position . can match from position from on: . matches no newline
LineEnd(t, from) ==
  LET nl == FirstIn(t, {"\n"}, from, Len(t)) IN IF nl = 0 THEN Len(t) ELSE nl - 1

NoToken == [found |-> FALSE, start |-> 0, end |-> 0, a |-> <<>>, b |-> <<>>]

Token(i, e, a, b) == [found |-> TRUE, start |-> i, end |-> e, a |-> a, b |-> b]

\* the match of the k-th keyword's pattern that starts at position i: a key
\* character, the keyword, its argument, a key character
MatchAt(k, t, i) ==
  LET name == Keywords[k].name
      arg == Keywords[k].arg
      j == i + Len(name) + 1
      eol == LineEnd(t, j)
  IN IF i + Len(name) > Len(t) THEN NoToken
     ELSE IF t[i] \notin KEY_CHARACTERS THEN NoToken
     ELSE IF SubSeq(t, i + 1, i + Len(name)) # name THEN NoToken
     ELSE IF arg = "none" THEN
       IF j <= Len(t) /\ t[j] \in KEY_CHARACTERS THEN Token(i, j, <<>>, <<>>) ELSE NoToken
     ELSE IF arg = "lazy" THEN
       LET e == FirstIn(t, KEY_CHARACTERS, j, eol)
       IN IF e = 0 THEN NoToken ELSE Token(i, e, SubSeq(t, j, e - 1), <<>>)
     ELSE IF arg = "greedy" THEN
       LET e == LastIn(t, KEY_CHARACTERS, j, eol)
       IN IF e = 0 THEN NoToken ELSE Token(i, e, SubSeq(t, j, e - 1), <<>>)
     ELSE
       IF j > Len(t) \/ t[j] # "?" THEN NoToken
       ELSE LET c == FirstIn(t, {":"}, j + 1, eol)
                e == IF c = 0 THEN 0 ELSE FirstIn(t, KEY_CHARACTERS, c + 1, eol)
            IN IF e = 0 THEN NoToken
               ELSE Token(i, e, SubSeq(t, j + 1, c - 1), SubSeq(t, c + 1, e - 1))

\* the pattern tried at the start of the text only
re_match_keyword(k, t) == IF t = <<>> THEN NoToken ELSE MatchAt(k, t, 1)

\* re.search(keyword, self.text): the match with the leftmost start
re_search_keyword(k, t) ==
  LET starts == {i \in 1..Len(t) : t[i] \in KEY_CHARACTERS /\ MatchAt(k, t, i).found}
  IN IF starts = {} THEN NoToken
     ELSE MatchAt(k, t, CHOOSE i \in starts : \A q \in starts : i <= q)

\* str(substitution_lambda(**substitution_args)) of the k-th simple_replacement
Substitution(k, s, m) ==
  CASE k = 1 -> branch_name(s)
    [] k = 2 -> Str(mods(s))
    [] k = 3 -> Str(dir_mods(s))
    [] k = 4 -> Str(commit_number(s))
    [] k = 5 -> commit_datetime(s, m.a)
    [] k = 6 -> current_datetime(s, m.a)
    [] k = 7 -> sha(s, m.a)
    [] k = 8 -> dir_sha(s, m.a)
    [] k = 9 -> has_mods(s, m.a, m.b)
    [] k = 10 -> has_dir_mods(s, m.a, m.b)
    [] k = 11 -> version(s, m.a, <<>>)
    [] k = 12 -> semver(s)
    [] k = 13 -> semver_extended(s)
    [] k = 14 -> major(s)
    [] k = 15 -> minor(s)
    [] k = 16 -> patch(s)

\* the template texts: up to MaxSegments of these, one after the other
Segments ==
  { <<"!", "G", "I", "T", "H", "A", "S", "H", "5", "!">>, <<"-">>, <<"!", "G", "I", "T", "V", "E", "R", "S", "I", "O", "N", "-", "!">>, <<"!", "G", "I", "T">>, <<"@", "G", "I", "T", "M", "O", "D", "S", "?", "H", "A", "S", "H", "!", ":", "n", "@">>,
    <<"!", "G", "I", "T", "B", "R", "A", "N", "C", "H", "N", "A", "M", "E", "!">>, <<"!", "F", "O", "O", "!">>, <<"!", "G", "I", "T", "C", "O", "M", "M", "I", "T", "D", "A", "T", "E", "%", "Y", "!">>, <<"!", "G", "I", "T", "M", "O", "D", "S", "?", "{", ":", "n", "!">> }

RECURSIVE Texts(_)
Texts(n) ==
  IF n = 0 THEN {<<>>}
  ELSE LET shorter == Texts(n - 1) IN shorter \cup {t \o g : t \in shorter, g \in Segments}

\* KeywordReplacer(text, repo) and the entry of execute()
NewKeywordReplacer ==
  /\ pc = "ready"
  /\ \E t \in Texts(MaxSegments) : text' = t /\ template' = t
  /\ kw' = 1
  /\ iterations' = 0
  /\ fired' = {}
  /\ pc' = "execute"
  /\ UNCHANGED <<repo, self, tags, tag_name, idx, inspected, call, ret>>

\* lines 226-235: one pass of the loop of the running simple_replacement that finds
\* a match; an exception of the handler ends execute()
ReplaceStep ==
  /\ pc = "execute"
  /\ iterations < MaxIterations
  /\ \E m \in {re_search_keyword(kw, text)} :
       /\ m.found
       /\ \E r \in {Substitution(kw, self, m)} :
            /\ self' = r.self
            /\ iterations' = iterations + 1
            /\ IF r.ok
               THEN /\ text' = Replace(text, SubSeq(text, m.start, m.end), r.val)
                    /\ fired' = fired \cup {kw}
                    /\ pc' = "execute"
               ELSE /\ pc' = "error"
                    /\ UNCHANGED <<text, fired>>
  /\ UNCHANGED <<repo, tags, tag_name, idx, inspected, template, kw, call, ret>>

\* lines 227-229: no match is left, the loop ends; the next simple_replacement
\* starts, or execute() returns the text
LoopEnd ==
  /\ pc = "execute"
  /\ ~re_search_keyword(kw, text).found
  /\ IF kw < Len(Keywords)
     THEN kw' = kw + 1 /\ pc' = "execute"
     ELSE kw' = kw /\ pc' = "done"
  /\ iterations' = 0
  /\ UNCHANGED <<repo, self, tags, tag_name, idx, inspected, text, template, fired, call, ret>>

NextReplace == FilterTags \/ WalkStep \/ ParseTag \/ NewKeywordReplacer \/ ReplaceStep \/ LoopEnd

\* three commits, the oldest tagged 1.2
ReleaseHistory == [i \in 1..3 |-> [hexsha |-> HexOf(i), path |-> IF i = 2 THEN PathSrc ELSE PathDoc]]

\* Scenario C: HEAD abcdef1234, version 1.2.2, nothing modified
ScenarioC ==
  [repo |-> [commits |-> ReleaseHistory, tags |-> ReleaseTag(ReleaseHistory),
             detached |-> FALSE, active_branch |-> BranchMaster,
             diff_all |-> 0, diff_dir |-> 0,
             authored |-> AuthoredTime, localtime |-> ClockTime],
   sub_paths |-> SubPathNone, use_directory_hash |-> FALSE]

\* a branch named like a token, a modified file under src, --dir_hash
ProjectCheckout ==
  [repo |-> [commits |-> ReleaseHistory, tags |-> ReleaseTag(ReleaseHistory),
             detached |-> FALSE, active_branch |-> BranchToken,
             diff_all |-> 2, diff_dir |-> 1,
             authored |-> AuthoredTime, localtime |-> ClockTime],
   sub_paths |-> SubPathSrc, use_directory_hash |-> TRUE]

\* a detached HEAD, a project directory no commit touches, --dir_hash
EmptyProject ==
  [repo |-> [commits |-> ReleaseHistory, tags |-> ReleaseTag(ReleaseHistory),
             detached |-> TRUE, active_branch |-> <<>>,
             diff_all |-> 1, diff_dir |-> 0,
             authored |-> AuthoredTime, localtime |-> ClockTime],
   sub_paths |-> SubPathLib, use_directory_hash |-> TRUE]

Checkouts == {ScenarioC, ProjectCheckout, EmptyProject}

InitReplace ==
  \E c \in Checkouts : Construct(c.repo, <<>>, c.sub_paths, c.use_directory_hash)

SpecReplace == InitReplace /\ [][NextReplace]_vars

(***************************************************************************)
(* _apply_format over every small format.                                  *)
(***************************************************************************)
\* what a format is made of: the placeholder codes and literal characters
FormatPieces ==
  { <<"%", "M">>, <<"%", "m">>, <<"%", "p">>, <<"%", "s">>, <<"%", "s", "h">>, <<"%", "d", "s", "h">>, <<"%", "m", "c">>, <<"%", "d", "m", "c">>, <<"%", "s", "p", "r">>, <<"%", "s", "b", "m">>,
    <<"c">>, <<"h">>, <<"n">>, <<"\\">> }

RECURSIVE Formats(_)
Formats(n) ==
  IF n = 0 THEN {<<>>}
  ELSE LET shorter == Formats(n - 1) IN shorter \cup {f \o g : f \in shorter, g \in FormatPieces}

\* no override, and an override that reads like a placeholder
SeparatorOverrides == {<<>>, <<"%", "M">>}

ApplyFormat ==
  /\ pc = "ready"
  /\ \E f \in Formats(MaxPieces), sep \in SeparatorOverrides :
       Returns([op |-> "_apply_format", formatting |-> f, separator |-> sep],
               _apply_format(self, f, sep))

NextFormat == FilterTags \/ WalkStep \/ ParseTag \/ ApplyFormat \/ Return

InitFormat ==
  \E c \in Checkouts : Construct(c.repo, <<>>, c.sub_paths, c.use_directory_hash)

SpecFormat == InitFormat /\ [][NextFormat]_vars

(***************************************************************************)
(* What the claims speak of, stated without the model's own matcher.       *)
(***************************************************************************)
AllDigits(s, from, to) == \A k \in from..to : s[k] \in Digits

\* prefix + pattern matches the name from its start: the name is the prefix, one or
\* more digits, one of . _ - and one or more digits, then anything
MatchesFromStart(tag_prefix, name) ==
  /\ StartsWith(name, tag_prefix)
  /\ \E i \in 1..Len(name), j \in 1..Len(name) :
       LET p == Len(tag_prefix) IN
       /\ p + i + 1 + j <= Len(name)
       /\ AllDigits(name, p + 1, p + i)
       /\ name[p + i + 1] \in Separators
       /\ AllDigits(name, p + i + 2, p + i + 1 + j)

\* the major and minor captures: the whole digit runs around the separator
Captures(tag_prefix, name) ==
  LET p == Len(tag_prefix)
      i == CHOOSE n \in 1..Len(name) :
             /\ AllDigits(name, p + 1, p + n)
             /\ name[p + n + 1] \in Separators
      j == CHOOSE n \in 1..Len(name) :
             /\ p + i + 1 + n <= Len(name)
             /\ AllDigits(name, p + i + 2, p + i + 1 + n)
             /\ p + i + 1 + n = Len(name) \/ name[p + i + 2 + n] \notin Digits
  IN [major |-> SubSeq(name, p + 1, p + i),
      minor |-> SubSeq(name, p + i + 2, p + i + 1 + j)]

NoTagMatches ==
  \A t \in 1..Len(repo.tags) : ~MatchesFromStart(self.tag_prefix, repo.tags[t].name)

\* a commit counts when no sub-path is given or its file lies under one
Counts(c) ==
  \/ self.sub_paths = <<>>
  \/ \E i \in 1..Len(self.sub_paths) : StartsWith(c.path, self.sub_paths[i])

CountingCommits == {i \in 1..Len(repo.commits) : Counts(repo.commits[i])}

\* the retained tags whose target is the k-th walked commit
TagsOn(k) ==
  {t \in 1..Len(repo.tags) :
     /\ MatchesFromStart(self.tag_prefix, repo.tags[t].name)
     /\ repo.tags[t].object = self._sub_path_commits[k].hexsha}

Anchors == {k \in 1..Len(self._sub_path_commits) : TagsOn(k) # {}}

FirstAnchor == CHOOSE k \in Anchors : \A m \in Anchors : k <= m

\* C1: with no tag name matching prefix+pattern the resolver yields major "0",
\* minor "0", separator "." and patch = the number of commits of the walked
\* sequence (those touching the sub-path filter, all of them when it is empty).
C1_NoTagDefaults ==
  (pc = "ready" /\ NoTagMatches) =>
    /\ self._major = <<"0">>
    /\ self._minor = <<"0">>
    /\ self._default_separator = <<".">>
    /\ self._patch = IntToStr(Cardinality(CountingCommits))

\* C1's case: tags exist, one of them on HEAD, none matches; a filter drops a commit
C1_Witness ==
  /\ pc = "ready"
  /\ NoTagMatches
  /\ \E t \in 1..Len(repo.tags) : repo.tags[t].object = repo.commits[1].hexsha
  /\ self.sub_paths # <<>>
  /\ Len(repo.commits) = 3
  /\ self._patch = <<"2">>

\* C2: when N is the smallest 0-based index of a walked commit that is the target of
\* a retained tag, the walk stops there: patch is N, major and minor are the
\* captures of a retained tag on that commit, and no commit after it is inspected.
C2_AnchorDistance ==
  Anchors # {} =>
    /\ inspected \subseteq 1..FirstAnchor
    /\ pc = "ready" =>
         /\ self._patch = IntToStr(FirstAnchor - 1)
         /\ inspected = 1..FirstAnchor
         /\ \E t \in TagsOn(FirstAnchor) :
              LET c == Captures(self.tag_prefix, repo.tags[t].name)
              IN self._major = c.major /\ self._minor = c.minor

\* C2's case: the anchor is the second walked commit, commits follow it, and an
\* unretained tag sits on HEAD
C2_Witness ==
  /\ pc = "ready"
  /\ Anchors # {}
  /\ FirstAnchor = 2
  /\ Len(self._sub_path_commits) = 3
  /\ \E t \in 1..Len(repo.tags) :
       /\ repo.tags[t].object = self._sub_path_commits[1].hexsha
       /\ ~MatchesFromStart(self.tag_prefix, repo.tags[t].name)
  /\ self._patch = <<"1">>

\* Scenario A's repository: three commits, one tag v1.2 on the oldest, no filter
ScenarioA ==
  /\ Len(repo.commits) = 3
  /\ repo.tags = <<[name |-> <<"v", "1", ".", "2">>, object |-> repo.commits[3].hexsha]>>
  /\ self.sub_paths = <<>>

\* C3 as stated: in Scenario A with tag prefix "" the resolver yields major "1",
\* minor "2", patch "2".
C3_ScenarioA_AsStated ==
  (pc = "ready" /\ ScenarioA /\ self.tag_prefix = <<>>) =>
    self._major = <<"1">> /\ self._minor = <<"2">> /\ self._patch = <<"2">>

\* C3 amended: in Scenario A the resolver yields major "1", minor "2", patch "2"
\* with tag prefix "v"; with tag prefix "" the name v1.2 does not match from its
\* start, the tag is not retained, and the result is major "0", minor "0", patch "3".
C3_ScenarioA_Amended ==
  (pc = "ready" /\ ScenarioA) =>
    /\ self.tag_prefix = <<"v">> =>
         self._major = <<"1">> /\ self._minor = <<"2">> /\ self._patch = <<"2">>
    /\ self.tag_prefix = <<>> =>
         self._major = <<"0">> /\ self._minor = <<"0">> /\ self._patch = <<"3">>

\* C3's case: Scenario A resolved with the prefix v
C3_Witness ==
  /\ pc = "ready"
  /\ ScenarioA
  /\ self.tag_prefix = <<"v">>
  /\ self._major = <<"1">>
  /\ self._patch = <<"2">>

\* a decimal number
IsNumber(a) == a # <<>> /\ \A i \in 1..Len(a) : a[i] \in Digits

\* val is hexsha cut to the length the argument asks for: that many characters for a
\* number, the default 7 for an argument that is no integer
AbbreviatedTo(val, hexsha, a) ==
  /\ StartsWith(hexsha, val)
  /\ IsNumber(a) => Len(val) = Min(DigitsToInt(a), Len(hexsha))
  /\ (~IsNumber(a) /\ (a = <<>> \/ ~IsNumber(Tail(a)) \/ Head(a) \notin {"+", "-"})) =>
       Len(val) = DefaultNumChars

\* the newest commit from HEAD that changes a file under the sub-path filter
NewestCounting == CHOOSE i \in CountingCommits : \A j \in CountingCommits : i <= j

\* C4: with a non-empty sub-path filter dir_sha returns the abbreviated hash of the
\* newest commit touching a path of the filter, whichever commit is HEAD; sha
\* returns the abbreviated hash of HEAD, and with use_directory_hash what dir_sha
\* returns.
C4_DirSha ==
  /\ (pc = "called" /\ call.op = "dir_sha" /\ self.sub_paths # <<>> /\ CountingCommits # {}) =>
       /\ ret.ok
       /\ AbbreviatedTo(ret.val, repo.commits[NewestCounting].hexsha, call.num_chars)
  /\ (pc = "called" /\ call.op = "sha" /\ ~self._use_directory_hash) =>
       /\ ret.ok
       /\ AbbreviatedTo(ret.val, repo.commits[1].hexsha, call.num_chars)
  /\ (pc = "called" /\ call.op = "sha" /\ self._use_directory_hash /\ CountingCommits # {}) =>
       /\ ret.ok
       /\ AbbreviatedTo(ret.val, repo.commits[NewestCounting].hexsha, call.num_chars)

\* C4's case: HEAD does not touch the filter, the commit before it does, and sha with
\* use_directory_hash is asked for 5 characters
C4_Witness ==
  /\ pc = "called"
  /\ call.op = "sha"
  /\ call.num_chars = <<"5">>
  /\ self._use_directory_hash
  /\ self.sub_paths # <<>>
  /\ CountingCommits # {}
  /\ NewestCounting = 2
  /\ ret.val = Take(repo.commits[2].hexsha, 5)

\* what the claim has %spr render as
ExpectedPreRelease ==
  IF repo.diff_dir = 0 THEN <<>> ELSE <<"-", "m", "o", "d", "s", ".">> \o IntToStr(repo.diff_dir)

\* C10: %spr (semver_pre_release, and through it semver_extended) renders as the
\* empty string when the sub-path-restricted modification count is 0 and as
\* "-mods." followed by that count otherwise, for both settings of
\* use_directory_hash.
C10_PreReleaseUsesDirCount ==
  /\ (pc = "called" /\ call.op = "semver_pre_release" /\ ret.ok) =>
       ret.val = ExpectedPreRelease
  /\ (pc = "called" /\ call.op = "semver_extended" /\ ret.ok) =>
       ret.val = self._major \o <<".">> \o self._minor \o <<".">> \o self._patch
                 \o ExpectedPreRelease \o <<"+", "s", "h", "a", ".">> \o sha_n(self, DefaultNumChars).val

\* the k-th keyword's token pattern matches somewhere in t
HasToken(k, t) == \E i \in 1..Len(t) : MatchAt(k, t, i).found

\* t holds u
Occurs(t, u) == \E i \in 1..(Len(t) - Len(u) + 1) : SubSeq(t, i, i + Len(u) - 1) = u

\* the number of tokens of the k-th keyword in t, counted from the left as
\* re.findall counts them
RECURSIVE CountTokens(_, _)
CountTokens(k, t) ==
  LET m == re_search_keyword(k, t)
  IN IF m.found THEN 1 + CountTokens(k, Drop(t, m.end)) ELSE 0

ScenarioCTemplate == <<"!", "G", "I", "T", "H", "A", "S", "H", "5", "!", "-", "!", "G", "I", "T", "V", "E", "R", "S", "I", "O", "N", "-", "!">>

\* Scenario C's repository: HEAD abcdef1234, version 1.2.2 with the tag's separator
\* ".", no modification
InScenarioC ==
  /\ repo.commits[1].hexsha = <<"a", "b", "c", "d", "e", "f", "1", "2", "3", "4">>
  /\ self._major = <<"1">> /\ self._minor = <<"2">> /\ self._patch = <<"2">>
  /\ self._default_separator = <<".">>
  /\ repo.diff_all = 0
  /\ ~self._use_directory_hash

\* C5: in Scenario C execute() on the HASH token with argument 5, "-" and the
\* VERSION token with argument "-" returns exactly abcde-1-2-2-0.
C5_ScenarioC ==
  (pc = "done" /\ template = ScenarioCTemplate /\ InScenarioC) => text = <<"a", "b", "c", "d", "e", "-", "1", "-", "2", "-", "2", "-", "0">>

\* C5's case: execute() has returned abcde-1-2-2-0 for Scenario C's template
C5_Witness ==
  /\ pc = "done"
  /\ template = ScenarioCTemplate
  /\ InScenarioC
  /\ 7 \in fired /\ 11 \in fired
  /\ text = <<"a", "b", "c", "d", "e", "-", "1", "-", "2", "-", "2", "-", "0">>

\* C6 as the spec states it: when execute() has returned, the text holds no
\* substring that matches the token pattern of any of the 16 keywords.
C6_NoTokenRemains ==
  pc = "done" => \A k \in 1..Len(Keywords) : ~HasToken(k, text)

\* C6, amended: when execute() has returned, a substring matching the k-th
\* keyword's token pattern remains only if a simple_replacement that runs after the
\* k-th made a substitution.
C6_NoTokenUnlessLaterSubstitution ==
  pc = "done" =>
    \A k \in 1..Len(Keywords) : HasToken(k, text) => \E j \in fired : j > k

\* C6's case: execute() has returned a text with a HASH token that the template
\* did not hold; the MODS substitution, which runs later, put it together
C6_Witness ==
  /\ pc = "done"
  /\ ~HasToken(7, template)
  /\ HasToken(7, text)
  /\ fired = {9}

\* C7: the handler invocations of a simple_replacement loop never exceed the
\* number of that keyword's tokens in the original text (so each loop ends).
C7_IterationsBounded ==
  pc \in {"execute", "error"} => iterations <= CountTokens(kw, template)

\* C8: an unknown token of the template, delimiters included, is in the text that
\* execute() returns.
C8_UnknownTokenKept ==
  (pc = "done" /\ Occurs(template, <<"!", "F", "O", "O", "!">>)) => Occurs(text, <<"!", "F", "O", "O", "!">>)

\* C9: execute() on a constructed RepoDetails never ends in an error.
C9_NeverErrors == pc # "error"

\* the call at hand applies a format that holds %hm
AppliesHasModsPlaceholder ==
  /\ pc = "called"
  /\ \/ call.op = "version" /\ Occurs(call.version_format, <<"%", "h", "m">>)
     \/ /\ call.op \in {"has_mods", "has_dir_mods"}
        /\ Occurs(call.true_value, <<"%", "h", "m">>) \/ Occurs(call.false_value, <<"%", "h", "m">>)

\* C11: a format that holds %hm, applied through version() or through the
\* true/false strings of has_mods / has_dir_mods, is rendered without error.
C11_HasModsRendered == AppliesHasModsPlaceholder => ret.ok

\* the end of the k-th keyword's token that opens at position i of t as the claim
\* has it: the nearest key character that can close the token (for the date
\* keywords a % belongs to the format and closes nothing); 0 when no token opens
NearestEnd(k, t, i) ==
  IF Keywords[k].arg # "greedy" THEN MatchAt(k, t, i).end
  ELSE IF ~MatchAt(k, t, i).found THEN 0
  ELSE LET j == i + Len(Keywords[k].name) + 1
       IN FirstIn(t, KEY_CHARACTERS \ {"%"}, j, LineEnd(t, j))

\* the tokens of t: keyword and opening position
TokensOf(t) ==
  {ki \in (1..Len(Keywords)) \X (1..Len(t)) :
     t[ki[2]] \in KEY_CHARACTERS /\ NearestEnd(ki[1], t, ki[2]) # 0}

\* t holds two tokens on one line
TwoTokensOnALine(t) ==
  \E x, y \in TokensOf(t) : x[2] < y[2] /\ LineEnd(t, x[2]) = LineEnd(t, y[2])

\* C12: in a text with two or more tokens on a line, the match that
\* simple_replacement makes for a keyword with an argument ends at the nearest
\* delimiter that can close the token; it does not reach the closing delimiter of a
\* later token.
C12_MatchEndsAtNearestDelimiter ==
  (pc = "execute" /\ Keywords[kw].arg # "none" /\ TwoTokensOnALine(text)) =>
    LET m == re_search_keyword(kw, text)
    IN m.found => m.end = NearestEnd(kw, text, m.start)

\* the placeholder codes the claim names
ClaimCodes ==
  { <<"%", "M">>, <<"%", "m">>, <<"%", "p">>, <<"%", "s">>, <<"%", "s", "h">>, <<"%", "d", "s", "h">>, <<"%", "m", "c">>, <<"%", "d", "m", "c">>, <<"%", "s", "p", "r">>, <<"%", "s", "b", "m">> }

\* the longest code that f starts with, <<>> when it starts with none
LongestCodeAt(f) ==
  LET here == {c \in ClaimCodes : StartsWith(f, c)}
  IN IF here = {} THEN <<>> ELSE CHOOSE c \in here : \A d \in here : Len(c) >= Len(d)

\* a code's own value
ValueOf(code, s, separator) ==
  CASE code = <<"%", "M">> -> Ok(s._major, s)
    [] code = <<"%", "m">> -> Ok(s._minor, s)
    [] code = <<"%", "p">> -> Ok(s._patch, s)
    [] code = <<"%", "s">> -> Ok(IF separator = <<>> THEN s._default_separator ELSE separator, s)
    [] code = <<"%", "s", "h">> -> sha_n(s, DefaultNumChars)
    [] code = <<"%", "d", "s", "h">> -> dir_sha_n(s, DefaultNumChars)
    [] code = <<"%", "m", "c">> -> Str(mods(s))
    [] code = <<"%", "d", "m", "c">> -> Str(dir_mods(s))
    [] code = <<"%", "s", "p", "r">> -> semver_pre_release(s)
    [] code = <<"%", "s", "b", "m">> -> semver_build_metadata(s)

\* the reference: from left to right, the longest code at each position is replaced
\* by its value, every other character is copied, and no value is read again
RECURSIVE Reference(_, _, _)
Reference(f, s, separator) ==
  IF f = <<>> THEN [ok |-> TRUE, val |-> <<>>]
  ELSE LET code == LongestCodeAt(f)
           head == IF code = <<>> THEN Ok(<<Head(f)>>, s) ELSE ValueOf(code, s, separator)
           rest == Reference(Drop(f, IF code = <<>> THEN 1 ELSE Len(code)), s, separator)
       IN [ok |-> head.ok /\ rest.ok, val |-> IF head.ok /\ rest.ok THEN head.val \o rest.val ELSE <<>>]

\* C13: for a format of literal characters (no braces, no quotes) and the codes
\* %M %m %p %s %sh %dsh %mc %dmc %spr %sbm, _apply_format returns what the
\* left-to-right longest-match reference gives.
C13_ReferenceTokenization ==
  (pc = "called" /\ call.op = "_apply_format") =>
    LET ref == Reference(call.formatting, self, call.separator)
    IN ref.ok => ret.ok /\ ret.val = ref.val

\* the same for the formats without a backslash
C13_WithoutBackslash ==
  (pc = "called" /\ call.op = "_apply_format" /\ ~Occurs(call.formatting, <<"\\">>)) =>
    LET ref == Reference(call.formatting, self, call.separator)
    IN ref.ok => ret.ok /\ ret.val = ref.val

====
